---- MODULE Spec2Model ----
(***************************************************************************)
(* Model of src/home.py: the Streamlit page that loads the county          *)
(* geometry (explode, buffer(0) repair, orientation, coordinate            *)
(* extraction), assembles the model input from the selected county and    *)
(* the two form inputs, and calls the predictor on submit.                 *)
(*                                                                         *)
(* Numbers that are floats in the program are fixed-point integers in      *)
(* hundredths: the slider value 45.0 is 4500 and the bin edge 1.5 is 150.  *)
(* Predicted prices are in thousandths so that the two-decimal formatting  *)
(* of the metric has something to round.                                   *)
(***************************************************************************)
EXTENDS Integers, Sequences, FiniteSets, TLC

\* ---------------------------------------------------------------- bounds
\* largest number of polygon parts of a county geometry in the input file
MaxParts == 2
\* largest number of rows of a predictor result
MaxRows == 2

\* ------------------------------------------------------- generic helpers
RECURSIVE Sum(_)
Sum(s) == IF s = <<>> THEN 0 ELSE Head(s) + Sum(Tail(s))

RECURSIVE Concat(_)
Concat(ss) == IF ss = <<>> THEN <<>> ELSE Head(ss) \o Concat(Tail(ss))

Reverse(s) == [i \in 1..Len(s) |-> s[Len(s) + 1 - i]]

SeqsUpTo(S, n) == UNION {[1..k -> S] : k \in 1..n}

\* ------------------------------------------------------------- geometry
\* A geometry is [type, rings]: a Polygon has one exterior ring (the empty
\* ring for POLYGON EMPTY), a MultiPolygon has one exterior ring per part.
\* The input polygons have no interior rings.
Polygon(ring) == [type |-> "Polygon", rings |-> <<ring>>]
MultiPolygon(rs) == [type |-> "MultiPolygon", rings |-> rs]
exterior(geometry) == geometry.rings[1]

SquareCCW == <<<<0, 0>>, <<2, 0>>, <<2, 2>>, <<0, 2>>, <<0, 0>>>>
SquareCW == <<<<0, 0>>, <<0, 2>>, <<2, 2>>, <<2, 0>>, <<0, 0>>>>
\* ring touching itself at (1,1)
BowtieTouch == <<<<0, 0>>, <<0, 2>>, <<1, 1>>, <<2, 2>>, <<2, 0>>, <<1, 1>>, <<0, 0>>>>
\* edges crossing at (1,1), which is not a vertex
BowtieCross == <<<<0, 0>>, <<2, 2>>, <<2, 0>>, <<0, 2>>, <<0, 0>>>>
\* collinear, zero area
Sliver == <<<<0, 0>>, <<1, 1>>, <<2, 2>>, <<0, 0>>>>

ValidRings == {SquareCCW, SquareCW}
SampleRings == ValidRings \cup {BowtieTouch, BowtieCross, Sliver}

Cross(o, a, b) == (a[1] - o[1]) * (b[2] - o[2]) - (a[2] - o[2]) * (b[1] - o[1])

\* the open segments a-b and c-d cross in a single interior point
SegmentsCross(a, b, c, d) ==
    /\ Cross(a, b, c) * Cross(a, b, d) < 0
    /\ Cross(c, d, a) * Cross(c, d, b) < 0

\* twice the signed area, summed as shapely's signed_area sums it:
\* xs[i] * (ys[i+1] - ys[i-1]) over the ring extended by its second point
signed_area2(ring) ==
    LET n == Len(ring)
        ext == Append(ring, ring[2])
    IN Sum([k \in 1..(n - 1) |-> ext[k + 1][1] * (ext[k + 2][2] - ext[k][2])])

\* geometry.is_valid of a polygon without holes: a closed ring of at least
\* four points that encloses area and neither touches nor crosses itself
is_valid(geometry) ==
    LET r == exterior(geometry)
        n == Len(r)
    IN /\ n >= 4
       /\ r[1] = r[n]
       /\ signed_area2(r) # 0
       /\ \A i, j \in 1..(n - 1) : i < j => r[i] # r[j]
       /\ \A i, j \in 1..(n - 1) :
            i < j => ~SegmentsCross(r[i], r[i + 1], r[j], r[j + 1])

\* geometry.buffer(0) on the invalid sample rings, as GEOS returns it:
\* shells come back clockwise; the touching bowtie splits into its two
\* triangles, the crossing bowtie keeps one lobe, the sliver vanishes.
buffer0(geometry) ==
    LET r == exterior(geometry)
    IN IF r = BowtieTouch
         THEN MultiPolygon(<< <<<<0, 0>>, <<0, 2>>, <<1, 1>>, <<0, 0>>>>,
                              <<<<1, 1>>, <<2, 2>>, <<2, 0>>, <<1, 1>>>> >>)
       ELSE IF r = BowtieCross
         THEN Polygon(<<<<1, 1>>, <<2, 2>>, <<2, 0>>, <<1, 1>>>>)
       ELSE IF r = Sliver
         THEN Polygon(<<>>)
       ELSE geometry

Raise(e) == [type |-> "raise", rings |-> <<e>>]
raised(geometry) == geometry.type = "raise"

orient_ring(ring) ==
    IF Len(ring) = 0 THEN ring
    ELSE IF signed_area2(ring) >= 0 THEN ring ELSE Reverse(ring)

\* shapely.geometry.polygon.orient(geometry, sign=1.0).  Up to shapely 2.0
\* it reads polygon.exterior and the ring's second point, so a MultiPolygon
\* raises AttributeError and an empty polygon IndexError; from 2.1 on it is
\* orient_polygons, which orients every part and passes empties through.
orient(geometry, impl) ==
    IF impl = "ring_based"
      THEN IF geometry.type = "MultiPolygon" THEN Raise("AttributeError")
           ELSE IF Len(exterior(geometry)) < 2 THEN Raise("IndexError")
           ELSE Polygon(orient_ring(exterior(geometry)))
      ELSE [geometry EXCEPT
              !.rings = [i \in 1..Len(geometry.rings) |-> orient_ring(geometry.rings[i])]]

fix_and_orient_geometry(geometry, impl) ==
    LET g1 == IF ~is_valid(geometry) THEN buffer0(geometry) ELSE geometry
    IN IF g1.type \in {"Polygon", "MultiPolygon"} THEN orient(g1, impl) ELSE g1

\* the nested [x, y] lists: one ring for a Polygon, one per part otherwise
get_polygon_coordinates(geometry) ==
    IF geometry.type = "Polygon"
      THEN <<exterior(geometry)>>
      ELSE [i \in 1..Len(geometry.rings) |-> geometry.rings[i]]

\* GeoDataFrame.explode(ignore_index=True): one row per polygon part, each
\* carrying the attributes of the row it came from
explode_row(row) ==
    IF row.geometry.type = "MultiPolygon"
      THEN [i \in 1..Len(row.geometry.rings) |->
              [row EXCEPT !.geometry = Polygon(row.geometry.rings[i])]]
      ELSE <<row>>

explode(gdf) == Concat([i \in 1..Len(gdf) |-> explode_row(gdf[i])])

\* --------------------------------------------------------- input file
\* Stand-ins for string comparison: the names in alphabetical order
NameOrder == <<"Alameda", "Kern", "Zzyzx">>
rank(name) == CHOOSE i \in 1..Len(NameOrder) : NameOrder[i] = name

\* One row per county in DADOS_GEO_MEDIAN (the county medians), without
\* its geometry.  "Kern" comes first in the file, so the file order is not
\* the alphabetical one.
Kern ==
    [name |-> "Kern", longitude |-> -11873, latitude |-> 3534,
     housing_median_age |-> 2300, total_rooms |-> 210000,
     total_bedrooms |-> 43000, population |-> 120000, households |-> 40000,
     median_income |-> 281, ocean_proximity |-> "INLAND",
     rooms_per_household |-> 525, bedrooms_per_room |-> 20,
     population_per_household |-> 300]

Alameda ==
    [name |-> "Alameda", longitude |-> -12233, latitude |-> 3788,
     housing_median_age |-> 3700, total_rooms |-> 80000,
     total_bedrooms |-> 10000, population |-> 30000, households |-> 10000,
     median_income |-> 372, ocean_proximity |-> "NEAR BAY",
     rooms_per_household |-> 700, bedrooms_per_room |-> 21,
     population_per_household |-> 200]

Geometries(rings, n) ==
    {Polygon(r) : r \in rings} \cup
    {MultiPolygon(rs) : rs \in SeqsUpTo(rings, n) \ SeqsUpTo(rings, 1)}

WithGeometry(attrs, g) == attrs @@ [geometry |-> g]

\* The files the model is run on: Kern with any geometry of up to MaxParts
\* sample rings, Alameda with one valid polygon.
Arquivos ==
    {<<WithGeometry(Kern, gk), WithGeometry(Alameda, ga)>> :
        gk \in Geometries(SampleRings, MaxParts),
        ga \in Geometries(ValidRings, 1)}

OrientImpls == {"ring_based", "orient_polygons"}

\* ------------------------------------------------------------- loading
\* carregar_dados_geo up to the orientation step: a row whose geometry
\* raised makes the whole load raise
geo_oriented(arquivo_, impl) ==
    LET gdf == explode(arquivo_)
    IN [i \in 1..Len(gdf) |->
          [gdf[i] EXCEPT !.geometry = fix_and_orient_geometry(gdf[i].geometry, impl)]]

load_error(arquivo_, impl) ==
    LET g == geo_oriented(arquivo_, impl)
    IN IF \E i \in 1..Len(g) : raised(g[i].geometry)
         THEN (LET k == CHOOSE i \in 1..Len(g) :
                           /\ raised(g[i].geometry)
                           /\ \A j \in 1..(i - 1) : ~raised(g[j].geometry)
               IN g[k].geometry.rings[1])
         ELSE ""

carregar_dados_geo(arquivo_, impl) ==
    LET gdf == geo_oriented(arquivo_, impl)
    IN [i \in 1..Len(gdf) |->
          [gdf[i] EXCEPT !.geometry = get_polygon_coordinates(gdf[i].geometry)]]

\* ------------------------------------------------------- the page body
RECURSIVE unique(_)
unique(s) ==
    IF s = <<>> THEN <<>>
    ELSE LET h == Head(s)
         IN <<h>> \o unique(SelectSeq(Tail(s), LAMBDA x : x # h))

RECURSIVE sorted(_)
sorted(s) ==
    IF s = <<>> THEN <<>>
    ELSE LET m == CHOOSE i \in 1..Len(s) : \A j \in 1..Len(s) : rank(s[i]) <= rank(s[j])
         IN <<s[m]>> \o sorted([i \in 1..(Len(s) - 1) |-> IF i < m THEN s[i] ELSE s[i + 1]])

values(gdf, col) == [i \in 1..Len(gdf) |-> gdf[i][col]]

condados(gdf) == sorted(unique(values(gdf, "name")))

\* gdf_geo.query("name == @selecionar_condado")
query(gdf, name) == SelectSeq(gdf, LAMBDA r : r.name = name)

\* the column read without the query on the name
lookup_unfiltered(gdf, name, col) == values(gdf, col)

\* gdf_geo.query(...)[col].values
lookup(gdf, name, col) == values(query(gdf, name), col)

slider == [min_value |-> 500, max_value |-> 10000, value |-> 4500, step |-> 500]
SliderDomain ==
    {slider.min_value + k * slider.step :
        k \in 0..((slider.max_value - slider.min_value) \div slider.step)}

number_input == [value |-> 10, min_value |-> 1, max_value |-> 50]
\* the ages tried: the default of the number input and its upper end
AgeInputs == {number_input.value, number_input.max_value}
\* the incomes tried where the income is not what is examined: both ends
\* of the slider and its default
IncomeInputs == {slider.min_value, slider.value, slider.max_value}

inf == 1000000000
bins_income == <<0, 150, 300, 450, 600, inf>>

\* digitize with right=True: an edge value falls into the bucket below
digitize_right(x, bins) == Cardinality({i \in 1..Len(bins) : bins[i] < x})

\* np.digitize(x, bins) for increasing bins, right=False: the number of
\* edges that are <= x
digitize(x, bins) == Cardinality({i \in 1..Len(bins) : bins[i] <= x})

Array(v) == [kind |-> "array", v |-> v]
Scalar(v) == [kind |-> "scalar", v |-> <<v>>]

entrada_modelo(gdf, name, age, income) ==
    LET median_income_scale == income \div 10
        median_income_cat == digitize(median_income_scale, bins_income)
    IN << <<"longitude", Array(lookup(gdf, name, "longitude"))>>,
          <<"latitude", Array(lookup(gdf, name, "latitude"))>>,
          <<"housing_median_age", Scalar(age)>>,
          <<"total_rooms", Array(lookup(gdf, name, "total_rooms"))>>,
          <<"total_bedrooms", Array(lookup(gdf, name, "total_bedrooms"))>>,
          <<"population", Array(lookup(gdf, name, "population"))>>,
          <<"households", Array(lookup(gdf, name, "households"))>>,
          <<"median_income", Scalar(median_income_scale)>>,
          <<"ocean_proximity", Array(lookup(gdf, name, "ocean_proximity"))>>,
          <<"median_income_cat", Scalar(median_income_cat)>>,
          <<"rooms_per_household", Array(lookup(gdf, name, "rooms_per_household"))>>,
          <<"bedrooms_per_room", Array(lookup(gdf, name, "bedrooms_per_room"))>>,
          <<"population_per_household",
            Array(lookup(gdf, name, "population_per_household"))>> >>

\* a frame built from the array-valued entries alone
DataFrame_arrays_only(dict) ==
    LET arrays == SelectSeq(dict, LAMBDA e : e[2].kind = "array")
        n == Len(arrays[1][2].v)
    IN [columns |-> [c \in 1..Len(arrays) |-> arrays[c][1]],
        rows |-> [r \in 1..n |-> [c \in 1..Len(arrays) |-> arrays[c][2].v[r]]]]

\* pd.DataFrame(dict): the keys in insertion order are the columns, the
\* arrays (all from the same query, so of one length) give the rows and
\* the scalars are repeated on every row
DataFrame(dict) ==
    LET arrays == {i \in 1..Len(dict) : dict[i][2].kind = "array"}
        n == Len(dict[CHOOSE i \in arrays : TRUE][2].v)
        cell(r, c) == IF dict[c][2].kind = "array" THEN dict[c][2].v[r]
                      ELSE dict[c][2].v[1]
    IN [columns |-> [c \in 1..Len(dict) |-> dict[c][1]],
        rows |-> [r \in 1..n |-> [c \in 1..Len(dict) |-> cell(r, c)]]]

\* f"{x:.2f}" of a price in thousandths: <<units, hundredths>>
Fmt2(x) ==
    LET h == (x + 5) \div 10
    IN <<h \div 100, h % 100>>

\* what modelo.predict may do with a batch: raise, or return a matrix of
\* 0..MaxRows rows and one column
Prices == {245310504}
PredictOutcomes ==
    {[raises |-> TRUE, matrix |-> <<>>]} \cup
    {[raises |-> FALSE, matrix |-> [i \in 1..n |-> <<IF i = 1 THEN p ELSE p + i>>]] :
        n \in 0..MaxRows, p \in Prices}

\* ---------------------------------------------------------------- state
VARIABLES
    arquivo,              \* content of DADOS_GEO_MEDIAN
    shapely_orient,       \* which orient the installed shapely provides
    pc,                   \* "start", "ready" or "load_failed"
    df,                   \* carregar_dados_limpos()
    gdf_geo,              \* carregar_dados_geo()
    modelo,               \* carregar_modelo()
    selecionar_condado,   \* the values of the last run of the page
    housing_median_age,
    median_income,
    df_entrada_modelo,
    botao_previsao,
    preco,
    metric,
    view_state,
    highlight,
    erro                  \* the exception that ended the last run, or ""

loaded == <<arquivo, shapely_orient, df, gdf_geo, modelo>>
page == <<selecionar_condado, housing_median_age, median_income, df_entrada_modelo,
          botao_previsao, preco, metric, view_state, highlight, erro>>
vars == <<pc, loaded, page>>

NoFrame == [columns |-> <<>>, rows |-> <<>>]

Init ==
    /\ arquivo \in Arquivos
    /\ shapely_orient \in OrientImpls
    /\ pc = "start"
    /\ df = ""
    /\ gdf_geo = <<>>
    /\ modelo = ""
    /\ selecionar_condado = ""
    /\ housing_median_age = 0
    /\ median_income = 0
    /\ df_entrada_modelo = NoFrame
    /\ botao_previsao = FALSE
    /\ preco = <<>>
    /\ metric = <<>>
    /\ view_state = <<>>
    /\ highlight = <<>>
    /\ erro = ""

\* Lines 98-232 for one run: the form values, the assembled frame, the
\* prediction when the button was pressed, then the map.  An exception
\* ends the run: what comes after it is not produced.
PageBody(gdf, name, age, income, botao, out) ==
    LET frame == DataFrame(entrada_modelo(gdf, name, age, income))
        latitude == lookup(gdf, name, "latitude")
        longitude == lookup(gdf, name, "longitude")
        predict_error ==
            IF ~botao THEN ""
            ELSE IF out.raises THEN "PredictorException"
            ELSE IF Len(out.matrix) = 0 THEN "IndexError"
            ELSE ""
        map_error == IF Len(latitude) = 0 THEN "IndexError" ELSE ""
    IN /\ selecionar_condado' = name
       /\ housing_median_age' = age
       /\ median_income' = income
       /\ df_entrada_modelo' = frame
       /\ botao_previsao' = botao
       /\ preco' = IF botao /\ ~out.raises THEN out.matrix ELSE <<>>
       /\ metric' = IF botao /\ predict_error = ""
                      THEN <<"Preco previsto: (US$)", Fmt2(out.matrix[1][1])>>
                      ELSE <<>>
       /\ erro' = IF predict_error # "" THEN predict_error ELSE map_error
       /\ view_state' =
            IF predict_error = "" /\ map_error = ""
              THEN <<[latitude |-> latitude[1], longitude |-> longitude[1],
                      zoom |-> 5, min_zoom |-> 5, max_zoom |-> 15]>>
              ELSE <<>>
       /\ highlight' =
            IF predict_error = "" /\ map_error = ""
              THEN [i \in 1..Len(query(gdf, name)) |->
                      [name |-> query(gdf, name)[i].name,
                       geometry |-> query(gdf, name)[i].geometry]]
              ELSE <<>>

\* a run that keeps the query result in gdf_geo
RunScript_rebinds(name, age, income, botao, out) ==
    /\ PageBody(gdf_geo, name, age, income, botao, out)
    /\ gdf_geo' = query(gdf_geo, name)
    /\ UNCHANGED <<pc, arquivo, shapely_orient, df, modelo>>

\* A run of the page once the cached loads have happened: the caches hand
\* back what they hold and the page assigns none of the three
RunScript(name, age, income, botao, out) ==
    /\ PageBody(gdf_geo, name, age, income, botao, out)
    /\ UNCHANGED <<pc, loaded>>

\* The first run of the process (lines 84-87, then the page with the
\* widget defaults and the button not pressed)
PrimeiraExecucao ==
    /\ pc = "start"
    /\ df' = "DADOS_LIMPOS"
    /\ UNCHANGED <<arquivo, shapely_orient>>
    /\ IF load_error(arquivo, shapely_orient) # ""
         THEN /\ pc' = "load_failed"
              /\ erro' = load_error(arquivo, shapely_orient)
              /\ UNCHANGED <<gdf_geo, modelo, selecionar_condado, housing_median_age,
                             median_income, df_entrada_modelo, botao_previsao, preco,
                             metric, view_state, highlight>>
         ELSE /\ pc' = "ready"
              /\ gdf_geo' = carregar_dados_geo(arquivo, shapely_orient)
              /\ modelo' = "MODELO_FINAL"
              /\ PageBody(gdf_geo', condados(gdf_geo')[1], number_input.value,
                          slider.value, FALSE, [raises |-> FALSE, matrix |-> <<>>])

\* A new session (or a reload of the page): the defaults again, no submit
NovaSessao ==
    /\ pc = "ready"
    /\ RunScript(condados(gdf_geo)[1], number_input.value, slider.value, FALSE,
                 [raises |-> FALSE, matrix |-> <<>>])

\* "Prever preco": the form values reach the script and the button is True
Submit ==
    /\ pc = "ready"
    /\ \E name \in {condados(gdf_geo)[i] : i \in 1..Len(condados(gdf_geo))},
          age \in AgeInputs, income \in IncomeInputs, out \in PredictOutcomes :
            RunScript(name, age, income, TRUE, out)

Next == PrimeiraExecucao \/ NovaSessao \/ Submit

Spec == Init /\ [][Next]_vars

\* The same submit over the whole slider domain, with the default age
SubmitRenda ==
    /\ pc = "ready"
    /\ \E name \in {condados(gdf_geo)[i] : i \in 1..Len(condados(gdf_geo))},
          income \in SliderDomain :
            RunScript(name, number_input.value, income, TRUE,
                      [raises |-> FALSE, matrix |-> <<<<250000000>>>>])

NextRenda == PrimeiraExecucao \/ SubmitRenda

SpecRenda == Init /\ [][NextRenda]_vars

\* The lookups of the page applied to any name, the unknown one included
NameUniverse == {NameOrder[i] : i \in 1..Len(NameOrder)}

ConsultaPorNome ==
    /\ pc = "ready"
    /\ \E name \in NameUniverse, age \in AgeInputs, income \in IncomeInputs :
            RunScript(name, age, income, FALSE, [raises |-> FALSE, matrix |-> <<>>])

NextLookup == PrimeiraExecucao \/ ConsultaPorNome

SpecLookup == Init /\ [][NextLookup]_vars

\* --------------------------------------------------------------- claims
Column(frame, key) == CHOOSE c \in 1..Len(frame.columns) : frame.columns[c] = key
Field(frame, r, key) == frame.rows[r][Column(frame, key)]
Batch == df_entrada_modelo
RanPage == pc = "ready" /\ selecionar_condado # ""

\* the edges of the claim, times ten so that they compare with the raw
\* slider value, the last bucket being unbounded above
EdgesTimes10 == <<0, 1500, 3000, 4500, 6000>>
InBucket(raw, i) ==
    /\ EdgesTimes10[i] <= raw
    /\ i < 5 => raw < EdgesTimes10[i + 1]

\* C1: for every raw slider income the record's median_income_cat is the
\* unique i in 1..5 with e[i-1] <= raw/10 < e[i] for the edges
\* 0, 1.5, 3, 4.5, 6, infinity; raw 15 gives 2, 45 gives 4, 60 and 100 give 5.
C1_IncomeBucket ==
    RanPage =>
        \A r \in 1..Len(Batch.rows) :
            LET cat == Field(Batch, r, "median_income_cat")
            IN /\ cat \in 1..5
               /\ InBucket(median_income, cat)
               /\ \A i \in 1..5 : InBucket(median_income, i) => i = cat
               /\ median_income = 1500 => cat = 2
               /\ median_income = 4500 => cat = 4
               /\ median_income = 6000 => cat = 5
               /\ median_income = 10000 => cat = 5

C1_Witness ==
    /\ RanPage /\ botao_previsao
    /\ median_income = 1500
    /\ Len(Batch.rows) >= 1
    /\ Field(Batch, 1, "median_income_cat") = 2

\* C2: for every selectable region, those exploded from a multi-polygon
\* included, the batch given to the predictor has exactly one row and the
\* reported price is the value at row 0, column 0 of the result.
C2_OneRowBatch ==
    RanPage /\ botao_previsao =>
        /\ Len(Batch.rows) = 1
        /\ metric # <<>> => metric[2] = Fmt2(preco[1][1])

Schema ==
    <<"longitude", "latitude", "housing_median_age", "total_rooms", "total_bedrooms",
      "population", "households", "median_income", "ocean_proximity",
      "median_income_cat", "rooms_per_household", "bedrooms_per_room",
      "population_per_household">>

\* C3: the record passed to the predictor has exactly the thirteen fields
\* of the schema, in that order, none missing and none extra.
C3_SchemaExact ==
    RanPage =>
        /\ Batch.columns = Schema
        /\ \A r \in 1..Len(Batch.rows) : Len(Batch.rows[r]) = 13

C3_Witness ==
    /\ RanPage /\ botao_previsao
    /\ selecionar_condado = "Kern"
    /\ housing_median_age = 50
    /\ Len(Batch.rows) >= 1
    /\ Len(Batch.columns) = 13

RegionFields ==
    {"longitude", "latitude", "total_rooms", "total_bedrooms", "population",
     "households", "ocean_proximity", "rooms_per_household", "bedrooms_per_room",
     "population_per_household"}

RegionOf(name) == arquivo[CHOOSE i \in 1..Len(arquivo) : arquivo[i].name = name]

\* C4: each of the ten region-sourced fields of the record equals the
\* selected region's value whatever the overrides, and housing_median_age
\* and median_income equal the user's age and the raw income divided by 10
\* whatever the region.
C4_FieldSources ==
    RanPage =>
        /\ Len(Batch.rows) >= 1
        /\ \A r \in 1..Len(Batch.rows) :
            /\ \A f \in RegionFields :
                 Field(Batch, r, f) = RegionOf(selecionar_condado)[f]
            /\ Field(Batch, r, "housing_median_age") = housing_median_age
            /\ Field(Batch, r, "median_income") * 10 = median_income

C4_Witness ==
    /\ RanPage /\ botao_previsao
    /\ selecionar_condado = "Alameda"
    /\ housing_median_age = 50
    /\ median_income = 10000
    /\ Field(Batch, 1, "total_rooms") = 80000
    /\ Field(Batch, 1, "median_income") = 1000

PartsOf(name) == Len(RegionOf(name).geometry.rings)

\* C5: after normalization a region has as many renderable entries, each
\* holding one exterior ring, as its raw geometry has simple polygons, and
\* exactly one for a single polygon, also when a part was repaired.
C5_ExplodeCardinality ==
    pc # "start" =>
        \A i \in 1..Len(arquivo) :
            LET entries == query(gdf_geo, arquivo[i].name)
            IN /\ Len(entries) = PartsOf(arquivo[i].name)
               /\ \A e \in 1..Len(entries) : Len(entries[e].geometry) = 1

ExplodedParts == explode(arquivo)
RepairsToNothing(g) == ~is_valid(g) /\ buffer0(g).rings \in {<<>>, <<<<>>>>}
VanishingParts == {i \in 1..Len(ExplodedParts) : RepairsToNothing(ExplodedParts[i].geometry)}

\* C6: when the zero-buffer repair of a part yields an empty geometry, that
\* entry is left out of the renderable set, normalization still completes
\* for the other entries, and no entry with an empty ring is returned.
C6_UnrepairableDropped ==
    pc # "start" /\ VanishingParts # {} =>
        /\ pc = "ready"
        /\ Len(gdf_geo) = Len(ExplodedParts) - Cardinality(VanishingParts)
        /\ \A i \in 1..Len(gdf_geo) :
             \A k \in 1..Len(gdf_geo[i].geometry) : gdf_geo[i].geometry[k] # <<>>

\* twice the enclosed signed area by the shoelace formula over the edges
Shoelace2(ring) ==
    Sum([i \in 1..(Len(ring) - 1) |->
            ring[i][1] * ring[i + 1][2] - ring[i + 1][1] * ring[i][2]])

\* C7: every exterior ring emitted by normalization has strictly positive
\* signed area, whatever the input winding and with or without repair.
C7_RingsCounterClockwise ==
    pc = "ready" =>
        \A i \in 1..Len(gdf_geo) :
            \A k \in 1..Len(gdf_geo[i].geometry) : Shoelace2(gdf_geo[i].geometry[k]) > 0

\* C8: on submit the prediction step ends in an error and reports no price
\* whenever the predictor raises or its result has no row or more than one
\* row; a price is reported only for a result of exactly one row.
C8_PredictionErrors ==
    RanPage /\ botao_previsao =>
        /\ Len(preco) # 1 => erro # "" /\ metric = <<>>
        /\ metric # <<>> => Len(preco) = 1

Available == {gdf_geo[i].name : i \in 1..Len(gdf_geo)}

\* C9: looking up a name of the sorted list of names succeeds, and looking
\* up a name outside it fails with NotFound at the lookup, with no empty
\* result flowing on into an assembled record.
C9_LookupNotFound ==
    RanPage =>
        IF selecionar_condado \in Available
          THEN erro # "NotFound" /\ Len(Batch.rows) >= 1
          ELSE erro = "NotFound" /\ Batch = NoFrame

\* C10: no interaction, failed or not, changes the loaded catalog, the
\* normalized geometry or the model once they are loaded.
C10_LoadedImmutable == [][pc = "ready" => loaded' = loaded]_vars

C10_Witness ==
    /\ RanPage /\ botao_previsao
    /\ erro # ""
    /\ gdf_geo = carregar_dados_geo(arquivo, shapely_orient)
    /\ modelo = "MODELO_FINAL"

====
